---- MODULE Spec2Model ----
\* Model of src/phase_amp_omega.py: compute_derivative and process_wave_data.
\*
\* Number representation
\*   - Angles are integers in units of pi/4, so np.pi is PI = 4 and a full turn
\*     is 2*PI = 8.  Complex samples are the lattice points {-1,0,1}^2, whose
\*     directions are exactly the multiples of pi/4, so arctan2 is exact.
\*   - Times and data are integers; a quotient a/b is the pair <<a, b>> and two
\*     quotients are compared by cross multiplication (RatEq).  Floating-point
\*     rounding is not modelled.
\*   - amplitude holds the radicand real^2 + imag^2 (sqrt(2) is not an integer);
\*     only its length is observed.
\*   - Arguments are 1-D float64 numpy arrays, as read_ascii_file builds them;
\*     negative zero (for which arctan2 yields -pi) is not among the samples.
\*   - A call ends with result = "returned" (out holds the returned tuple) or
\*     with result = "error" (a Python exception, named in err).
EXTENDS Integers, Sequences, FiniteSets, TLC

VARIABLES call,        \* which function the caller invokes
          pc,          \* position inside the call
          time, real, imag, data,   \* the arguments
          true_phase,  \* the phase the synthetic signal was built from (<<>> if none)
          amplitude, phase, cycles, cum_phase, last_phase, i,  \* locals of process_wave_data
          result, err, out

vars == <<call, pc, time, real, imag, data, true_phase, amplitude, phase,
          cycles, cum_phase, last_phase, i, result, err, out>>

\* ---------------------------------------------------------------- bounds
MaxLen == 3
MaxDt == 2
DataMax == 2

\* np.pi in units of pi/4
PI == 4

TwoPI == 2 * PI

Abs(x) == IF x < 0 THEN -x ELSE x

SeqsUpTo(S, n) == UNION {[1..k -> S] : k \in 0..n}

RECURSIVE SumTo(_, _)
SumTo(s, n) == IF n = 0 THEN 0 ELSE SumTo(s, n - 1) + s[n]

\* ---------------------------------------------------------------- inputs
\* Time grids as read_ascii_file delivers them: sorted ascending, duplicates
\* removed, hence strictly increasing.  Spacings are drawn from 1..MaxDt.
GridOf(steps) == [j \in 1..(Len(steps) + 1) |-> SumTo(steps, j - 1)]

Grids == {<<>>} \cup {GridOf(s) : s \in SeqsUpTo(1..MaxDt, MaxLen - 1)}

\* Data sequences: arbitrary small ones, and samples of a straight line.
LinearData(T, m, k) == [j \in 1..Len(T) |-> m * T[j] + k]

Slopes == (-DataMax)..DataMax

Offsets == 0..DataMax

DataSeqs == SeqsUpTo(0..DataMax, MaxLen)

\* A synthetic signal of unit-direction samples built from a true phase.
UnitCos(theta) ==
    LET k == theta % TwoPI
    IN  IF k \in {0, 1, 7} THEN 1 ELSE IF k \in {2, 6} THEN 0 ELSE -1

UnitSin(theta) ==
    LET k == theta % TwoPI
    IN  IF k \in {1, 2, 3} THEN 1 ELSE IF k \in {0, 4} THEN 0 ELSE -1

PhaseOf(start, incs) == [j \in 1..(Len(incs) + 1) |-> start + SumTo(incs, j - 1)]

StartPhases == (-PI + 1)..(TwoPI)

TruePhases == {PhaseOf(s, d) : s \in StartPhases, d \in SeqsUpTo((-PI)..PI, MaxLen - 1)}

RawSamples == SeqsUpTo({0, 1}, MaxLen)

\* ---------------------------------------------------------------- numpy helpers
\* np.arctan2(y, x) on lattice points, result in (-PI, PI]
arctan2(y, x) ==
    IF y = 0 THEN (IF x < 0 THEN PI ELSE 0)
    ELSE IF y > 0 THEN (IF x > 0 THEN 1 ELSE IF x = 0 THEN 2 ELSE 3)
    ELSE (IF x > 0 THEN -1 ELSE IF x = 0 THEN -2 ELSE -3)

\* numpy broadcasting of two 1-D arrays: the resulting length, or -1 when the
\* shapes cannot be broadcast together (ValueError)
BroadcastLen(a, b) ==
    IF a = b THEN a
    ELSE IF a = 1 THEN b
    ELSE IF b = 1 THEN a
    ELSE -1

\* element j of a 1-D array x broadcast to a longer length
BroadcastAt(x, j) == IF Len(x) = 1 THEN x[1] ELSE x[j]

\* ---------------------------------------------------------------- compute_derivative
\* Variant: short inputs are answered with an all-zero derivative instead of
\* raising (an "if len(time) < 2: return derivative" guard).
compute_derivative_ZerosWhenShort(T, D) ==
    IF Len(T) < 2 \/ Len(D) < 2 THEN [err |-> "none", val |-> [j \in 1..Len(D) |-> <<0, 1>>]]
    ELSE
      LET dt == T[2] - T[1]
          n  == Len(D)
      IN  [err |-> "none",
           val |-> [j \in 1..n |->
                      IF j = 1 THEN <<D[2] - D[1], dt>>
                      ELSE IF j = n THEN <<D[n] - D[n - 1], dt>>
                      ELSE <<D[j + 1] - D[j - 1], 2 * dt>>]]

\* Returns [err |-> "none", val |-> derivative] or [err |-> "IndexError", val |-> <<>>].
compute_derivative(T, D) ==
    IF Len(T) < 2 THEN [err |-> "IndexError", val |-> <<>>]      \* time[1]
    ELSE IF Len(D) < 2 THEN [err |-> "IndexError", val |-> <<>>] \* data[1]
    ELSE
      LET dt == T[2] - T[1]
          n  == Len(D)
      IN  [err |-> "none",
           val |-> [j \in 1..n |->
                      IF j = 1 THEN <<D[2] - D[1], dt>>
                      ELSE IF j = n THEN <<D[n] - D[n - 1], dt>>
                      ELSE <<D[j + 1] - D[j - 1], 2 * dt>>]]

\* ---------------------------------------------------------------- process_wave_data
\* Variant: the two branches adjust the counter in the opposite direction.
UpdateCycles_SwappedSigns(c, ph, last) ==
    IF Abs(ph - last) >= PI
    THEN LET c1 == IF ph > 0 THEN c + 1 ELSE c
         IN  IF ph < 0 THEN c1 - 1 ELSE c1
    ELSE c

\* Variant: the wrap test compares against pi/2 instead of pi.
UpdateCycles_HalfPiThreshold(c, ph, last) ==
    IF 2 * Abs(ph - last) >= PI
    THEN LET c1 == IF ph > 0 THEN c - 1 ELSE c
         IN  IF ph < 0 THEN c1 + 1 ELSE c1
    ELSE c

\* Variant: the second branch tests ph <= 0, so a wrap landing on 0 counts.
UpdateCycles_ZeroCounts(c, ph, last) ==
    IF Abs(ph - last) >= PI
    THEN LET c1 == IF ph > 0 THEN c - 1 ELSE c
         IN  IF ph <= 0 THEN c1 + 1 ELSE c1
    ELSE c

\* the wrap test and the two branches of the loop body
UpdateCycles(c, ph, last) ==
    IF Abs(ph - last) >= PI
    THEN LET c1 == IF ph > 0 THEN c - 1 ELSE c
         IN  IF ph < 0 THEN c1 + 1 ELSE c1
    ELSE c

\* Variant: the factor 2*pi is dropped.
CumPhaseValue_NoTwoPi(ph, c) == ph + c

CumPhaseValue(ph, c) == ph + TwoPI * c

Init ==
    /\ pc = "start"
    /\ amplitude = <<>> /\ phase = <<>> /\ cycles = 0 /\ cum_phase = <<>>
    /\ last_phase = 0 /\ i = 0
    /\ result = "none" /\ err = "none" /\ out = <<>>
    /\ \/ \* a direct call of compute_derivative(time, data)
          /\ call = "compute_derivative"
          /\ time \in Grids
          /\ data \in DataSeqs \cup {LinearData(time, m, k) : m \in Slopes, k \in Offsets}
          /\ real = <<>> /\ imag = <<>> /\ true_phase = <<>>
       \/ \* process_wave_data on a synthetic signal of a known true phase
          /\ call = "process_wave_data"
          /\ true_phase \in TruePhases
          /\ time \in {g \in Grids : Len(g) = Len(true_phase)}
          /\ real = [j \in 1..Len(true_phase) |-> UnitCos(true_phase[j])]
          /\ imag = [j \in 1..Len(true_phase) |-> UnitSin(true_phase[j])]
          /\ data = <<>>
       \/ \* process_wave_data on raw arrays of any lengths
          /\ call = "process_wave_data"
          /\ time \in Grids
          /\ real \in RawSamples
          /\ imag \in RawSamples
          /\ data = <<>> /\ true_phase = <<>>

\* compute_derivative called directly by the caller
CallComputeDerivative ==
    /\ pc = "start" /\ call = "compute_derivative"
    /\ LET r == compute_derivative(time, data)
       IN  /\ err' = r.err
           /\ result' = IF r.err = "none" THEN "returned" ELSE "error"
           /\ out' = IF r.err = "none" THEN <<r.val>> ELSE <<>>
    /\ pc' = "done"
    /\ UNCHANGED <<call, time, real, imag, data, true_phase, amplitude, phase,
                   cycles, cum_phase, last_phase, i>>

\* process_wave_data, lines 70-82: amplitude, phase, loop initialisation
Prepare ==
    /\ pc = "start" /\ call = "process_wave_data"
    /\ LET n == BroadcastLen(Len(real), Len(imag))
       IN  IF n = -1
           THEN /\ pc' = "done" /\ result' = "error" /\ err' = "ValueError"
                /\ UNCHANGED <<amplitude, phase, last_phase>>
           ELSE LET amp == [j \in 1..n |-> BroadcastAt(real, j) * BroadcastAt(real, j)
                                         + BroadcastAt(imag, j) * BroadcastAt(imag, j)]
                    ph  == [j \in 1..n |-> arctan2(BroadcastAt(imag, j), BroadcastAt(real, j))]
                IN  /\ amplitude' = amp
                    /\ phase' = ph
                    /\ IF n = 0
                       THEN /\ pc' = "done" /\ result' = "error" /\ err' = "IndexError"
                            /\ UNCHANGED last_phase
                       ELSE /\ pc' = "loop" /\ last_phase' = ph[1]
                            /\ UNCHANGED <<result, err>>
    /\ cycles' = 0 /\ cum_phase' = <<>> /\ i' = 0
    /\ UNCHANGED <<call, time, real, imag, data, true_phase, out>>

\* Variant: the cumulative phase is appended before the counter is updated.
LoopStep_StaleCycles ==
    /\ pc = "loop" /\ i < Len(phase)
    /\ LET ph == phase[i + 1]
           c  == UpdateCycles(cycles, ph, last_phase)
       IN  /\ cycles' = c
           /\ cum_phase' = Append(cum_phase, CumPhaseValue(ph, cycles))
           /\ last_phase' = ph
    /\ i' = i + 1
    /\ UNCHANGED <<call, pc, time, real, imag, data, true_phase, amplitude, phase,
                   result, err, out>>

\* one iteration of "for ph in phase", lines 85-102
LoopStep ==
    /\ pc = "loop" /\ i < Len(phase)
    /\ LET ph == phase[i + 1]
           c  == UpdateCycles(cycles, ph, last_phase)
       IN  /\ cycles' = c
           /\ cum_phase' = Append(cum_phase, CumPhaseValue(ph, c))
           /\ last_phase' = ph
    /\ i' = i + 1
    /\ UNCHANGED <<call, pc, time, real, imag, data, true_phase, amplitude, phase,
                   result, err, out>>

\* lines 105-110: differentiate the cumulative phase and return
Finish ==
    /\ pc = "loop" /\ i = Len(phase)
    /\ LET r == compute_derivative(time, cum_phase)
       IN  /\ err' = r.err
           /\ result' = IF r.err = "none" THEN "returned" ELSE "error"
           /\ out' = IF r.err = "none" THEN <<time, cum_phase, amplitude, r.val>> ELSE <<>>
    /\ pc' = "done"
    /\ UNCHANGED <<call, time, real, imag, data, true_phase, amplitude, phase,
                   cycles, cum_phase, last_phase, i>>

Next == CallComputeDerivative \/ Prepare \/ LoopStep \/ Finish

Spec == Init /\ [][Next]_vars

TypeOK ==
    /\ pc \in {"start", "loop", "done"}
    /\ result \in {"none", "error", "returned"}
    /\ i \in 0..MaxLen
    /\ Len(cum_phase) = i

\* ================================================================ properties
RatEq(a, b) == a[1] * b[2] = b[1] * a[2]

StrictlyIncreasing(T) == \A j \in 1..(Len(T) - 1) : T[j] < T[j + 1]

\* the arguments and the result of the compute_derivative call that has returned
DerivD == IF call = "compute_derivative" THEN data ELSE cum_phase

DerivOut == IF call = "compute_derivative" THEN out[1] ELSE out[4]

DerivReturned ==
    /\ result = "returned"
    /\ StrictlyIncreasing(time)
    /\ Len(time) = Len(DerivD)

\* C1: at every interior index the returned derivative is the centered
\* difference over the local time difference T[i+1] - T[i-1].
C1_InteriorUsesLocalSpacing ==
    (DerivReturned /\ Len(time) >= 3) =>
        \A j \in 2..(Len(time) - 1) :
            RatEq(DerivOut[j], <<DerivD[j + 1] - DerivD[j - 1], time[j + 1] - time[j - 1]>>)

\* C2: the endpoints are the forward difference over T[1]-T[0] and the
\* backward difference over T[n-1]-T[n-2].
C2_EndpointsUseLocalSpacing ==
    (DerivReturned /\ Len(time) >= 2) =>
        LET n == Len(time)
        IN  /\ RatEq(DerivOut[1], <<DerivD[2] - DerivD[1], time[2] - time[1]>>)
            /\ RatEq(DerivOut[n], <<DerivD[n] - DerivD[n - 1], time[n] - time[n - 1]>>)

\* C3: on data D[i] = m*T[i] + k the returned derivative equals m at every index.
C3_ExactOnLinearData ==
    \A m \in Slopes, k \in Offsets :
        (DerivReturned /\ call = "compute_derivative" /\ data = LinearData(time, m, k)) =>
            \A j \in 1..Len(time) : RatEq(DerivOut[j], <<m, 1>>)

\* --- unwrapping
MonotoneSlow(th) ==
    \/ \A j \in 1..(Len(th) - 1) : th[j + 1] - th[j] >= 0 /\ th[j + 1] - th[j] < PI
    \/ \A j \in 1..(Len(th) - 1) : th[j] - th[j + 1] >= 0 /\ th[j] - th[j + 1] < PI

\* C4: for a monotone true phase changing by less than pi per sample, the
\* difference true_phase - cumulative_phase is one constant over the sequence.
C4_UnwrapContinuity ==
    (Len(true_phase) > 0 /\ MonotoneSlow(true_phase)) =>
        \A j, k \in 1..Len(cum_phase) :
            true_phase[j] - cum_phase[j] = true_phase[k] - cum_phase[k]

C4_Witness ==
    /\ pc = "done" /\ result = "returned"
    /\ Len(true_phase) >= 3 /\ MonotoneSlow(true_phase)
    /\ Len(cum_phase) = Len(true_phase)
    /\ cycles # 0
    /\ true_phase[1] # cum_phase[1]

\* C5 as stated: every adjacent pair of cumulative phases differs by less than pi.
C5_AdjacentJumpBelowPi ==
    \A j \in 2..Len(cum_phase) : Abs(cum_phase[j] - cum_phase[j - 1]) < PI

\* C5 amended: adjacent cumulative phases differ by at most pi, and by less
\* than pi wherever the wrapped difference is not exactly pi in magnitude.
C5_AdjacentJumpAtMostPi ==
    \A j \in 2..Len(cum_phase) :
        /\ Abs(cum_phase[j] - cum_phase[j - 1]) <= PI
        /\ Abs(phase[j] - phase[j - 1]) # PI => Abs(cum_phase[j] - cum_phase[j - 1]) < PI

C5_Witness ==
    /\ pc = "done" /\ Len(cum_phase) >= 3
    /\ \E j \in 2..Len(cum_phase) :
          Abs(phase[j] - phase[j - 1]) > PI /\ Abs(cum_phase[j] - cum_phase[j - 1]) < PI
    /\ \E j \in 2..Len(cum_phase) :
          Abs(phase[j] - phase[j - 1]) = PI /\ Abs(cum_phase[j] - cum_phase[j - 1]) = PI

\* C6: when no two consecutive wrapped phases differ by pi or more, the cycle
\* counter stays 0 and the cumulative phase equals the wrapped phase.
C6_NoSpuriousWraps ==
    (\A j \in 2..Len(phase) : Abs(phase[j] - phase[j - 1]) < PI) =>
        /\ cycles = 0
        /\ \A j \in 1..Len(cum_phase) : cum_phase[j] = phase[j]

C6_Witness ==
    /\ pc = "done" /\ result = "returned"
    /\ Len(phase) >= 3 /\ Len(cum_phase) = Len(phase)
    /\ \A j \in 2..Len(phase) : Abs(phase[j] - phase[j - 1]) < PI
    /\ \E j \in 2..Len(phase) : Abs(phase[j] - phase[j - 1]) = PI - 1
    /\ cum_phase = phase

\* --- error handling
Misaligned ==
    IF call = "compute_derivative"
    THEN Len(time) # Len(data)
    ELSE ~(Len(time) = Len(real) /\ Len(real) = Len(imag))

\* C7: a call on sequences of unequal length ends in an error and returns nothing.
C7_MisalignedFailsFast ==
    (Misaligned /\ pc = "done") => (result = "error" /\ out = <<>>)

AlignedLen(n) ==
    IF call = "compute_derivative"
    THEN Len(time) = n /\ Len(data) = n
    ELSE Len(time) = n /\ Len(real) = n /\ Len(imag) = n

AtIndex == pc = "loop" /\ i < Len(phase)

\* C9: the counter is 0 and unchanged at index 0; at a later index with
\* |ph[i] - ph[i-1]| >= pi it goes down by 1 when ph[i] > 0 and up by 1 when
\* ph[i] < 0; it is unchanged when |ph[i] - ph[i-1]| < pi; and the cumulative
\* phase appended at the index is ph[i] + 2*pi*(the counter after the update).
C9_WrapStep ==
    [][AtIndex =>
        LET ph == phase[i + 1]
        IN  /\ i = 0 => (cycles = 0 /\ cycles' = 0)
            /\ i >= 1 =>
                 LET d == Abs(ph - phase[i])
                 IN  /\ (d >= PI /\ ph > 0) => cycles' = cycles - 1
                     /\ (d >= PI /\ ph < 0) => cycles' = cycles + 1
                     /\ d < PI => cycles' = cycles
            /\ cum_phase' = Append(cum_phase, ph + TwoPI * cycles')]_vars

\* a step from 3 units to -3 units at index 2 has been taken
C9_Witness ==
    /\ Len(cum_phase) >= 3
    /\ phase[2] = 3 /\ phase[3] = -3
    /\ cum_phase[2] = 3
    /\ cum_phase[3] = -3 + TwoPI
    /\ (i = 3 => cycles = 1)

\* C10: when the wrap test fires and ph[i] is exactly 0, the counter keeps its
\* value, cumulative_phase[i] = 2*pi*cycles_before, and last_phase becomes 0.
C10_ExactZeroKeepsCounter ==
    [][(AtIndex /\ i >= 1 /\ phase[i + 1] = 0 /\ Abs(phase[i + 1] - phase[i]) >= PI) =>
        /\ cycles' = cycles
        /\ cum_phase' = Append(cum_phase, TwoPI * cycles)
        /\ last_phase' = 0]_vars

C10_Witness ==
    /\ pc = "loop" /\ i >= 3
    /\ phase[i] = 0 /\ phase[i - 1] = PI
    /\ cycles # 0
    /\ cum_phase[i] = TwoPI * cycles
    /\ last_phase = 0

====
